---- MODULE Spec2Model ----
(***************************************************************************)
(* Model of the roulette ingestion job (processRouletteData, three         *)
(* variants) and of the retention pruner (cleanupOldRouletteEvents)        *)
(* running against one PostgreSQL store.  Every `await sql` of the source  *)
(* is one atomic step; two invocations interleave between their steps.     *)
(*                                                                         *)
(* Variants of processRouletteData:                                        *)
(*   "ts"     src/scripts/process-roulette-data.ts:104-253 and the first   *)
(*            module of src/app/api/scores/route copy.ts (22-172):         *)
(*            watermarks for every partition of the batch, one filter      *)
(*   "js"     src/unnamed/part_000:153-318: status filter first, then      *)
(*            watermarks for the partitions of the Resolved events         *)
(*   "global" src/app/api/score/route copy.ts:86-201 and                   *)
(*            src/app/api/scores/route copy.ts:285-400: one watermark      *)
(*            over the whole fact table, dimensions resolved in a loop     *)
(*                                                                         *)
(* Each deployment has its own cleanupOldRouletteEvents:                   *)
(*   "ts"     src/unnamed/part_001:5-30 and 100-132: deleted is the        *)
(*            length of the statement's result                             *)
(*   "js"     src/scripts/cleanup-old-roulette-events.js:60-90: the        *)
(*            statement is written on `sql`, a constant of main()          *)
(*   "global" src/app/api/score/route copy.ts:231-258: deleted is the      *)
(*            count of the statement's result                              *)
(***************************************************************************)
EXTENDS Integers, Sequences, FiniteSets, TLC

\* ------------------------------------------------------------ bounds
MaxBatch == 2
MaxRuns == 2
MaxNow == 4

\* --------------------------------------------------------- constants
\* SQL NULL / JS undefined: the value of MAX() over no rows and of a
\* Map.get() miss.  Surrogate ids and timestamps are all >= 1.
NULL == 0
\* threeMonthsAgo.setMonth(threeMonthsAgo.getMonth() - 3); the clock of
\* the model counts months.
RetentionMonths == 3
\* if (response.status !== 200) throw new Error(`HTTP error! status: ...`)
HttpOk == 200

\* Slots for invocations that are in flight at the same time.
Procs == {1, 2}
Variants == {"ts", "js", "global"}
TableIds == {"A", "B"}

\* ------------------------------------------------------------ inputs
\* Events the upstream endpoint can deliver in the shape the schema
\* accepts.  e1 and e2 are two rounds of table A; e3 is a round of
\* table B settled after e1; e2 is also seen while still Pending; e1 is also
\* seen re-delivered with a later settlement; e3 is also seen with its status
\* in lower case; e4 arrives under a changed display name of table A.
Ev(id, tid, tname, status, started, settled, num, type, color) ==
  [id |-> id,
   startedAt |-> started,
   settledAt |-> settled,
   status |-> status,
   gameType |-> "megaroulette",
   table |-> [id |-> tid, name |-> tname],
   result |-> [outcome |-> [number |-> num, type |-> type, color |-> color]]]

E1 == Ev("e1", "A", "n1", "Resolved", 1, 2, 35, "Odd", "Black")
E2 == Ev("e2", "A", "n1", "Resolved", 2, 3, 2, "Even", "Black")
E3 == Ev("e3", "B", "n2", "Resolved", 2, 3, 0, "Even", "Green")
E2Pending == Ev("e2", "A", "n1", "Pending", 2, 3, 2, "Even", "Black")
E1Later == Ev("e1", "A", "n1", "Resolved", 1, 3, 5, "Odd", "Red")
E3Lower == Ev("e3", "B", "n2", "resolved", 2, 3, 0, "Even", "Green")
E4 == Ev("e4", "A", "n3", "Resolved", 3, 3, 9, "Odd", "Red")

Events == {E1, E2, E3, E2Pending, E1Later, E3Lower, E4}

\* The lists of several events the upstream endpoint is taken to deliver:
\*   one round twice, or with a round of its table that is Resolved, Pending
\*   or under the changed display name, in either position;
\*   rounds of two tables, in either order, with the status in either case;
\*   two rounds of table A with a round of table B.
Lists ==
  { <<E1, E1Later>>, <<E1, E2>>, <<E1, E2Pending>>, <<E1, E4>>,
    <<E1Later, E2>>, <<E4, E2>>,
    <<E1, E3>>, <<E3, E1>>, <<E2, E3>>, <<E1, E3Lower>>,
    <<E1, E2, E3>> }

\* The deliveries of up to MaxBatch events: none, each event alone, and the
\* lists above (two records of one list may carry the same event id).
Batches ==
  { b \in {<<>>} \cup { <<e>> : e \in Events } \cup Lists : Len(b) <= MaxBatch }

\* An element the schema refuses under every variant: a round of table B
\* delivered without its gameType.
Malformed ==
  [id |-> "e5",
   startedAt |-> 2,
   settledAt |-> 3,
   status |-> "Resolved",
   table |-> [id |-> "B", name |-> "n2"],
   result |-> [outcome |-> [number |-> 7, type |-> "Odd", color |-> "Red"]]]

\* A round of table B that ended on the zero, its parity delivered as "Zero".
OpenParity == Ev("e6", "B", "n2", "Resolved", 2, 3, 0, "Zero", "Green")

\* What the upstream endpoint answers with status 200: a JSON array of
\* events, an array with a malformed element next to well-formed ones, an array
\* with a parity outside Even/Odd, or no array at all.
Payloads ==
  { [status |-> HttpOk, isArray |-> TRUE, items |-> b] : b \in Batches }
  \cup { [status |-> HttpOk, isArray |-> TRUE, items |-> <<Malformed>>],
         [status |-> HttpOk, isArray |-> TRUE, items |-> <<OpenParity>>],
         [status |-> HttpOk, isArray |-> TRUE,
          items |-> <<E1, Malformed>>],
         [status |-> HttpOk, isArray |-> FALSE, items |-> <<>>] }

\* What the upstream endpoint answers while it is down: a server error with
\* a body that is no array.
Outages ==
  { [status |-> 500, isArray |-> FALSE, items |-> <<>>],
    [status |-> 503, isArray |-> FALSE, items |-> <<>>] }

\* Answers with a status other than 200: the outages, and an array of events
\* delivered with 201 or with 404.
Answers ==
  Outages
  \cup { [status |-> 201, isArray |-> TRUE,
          items |-> <<E1>>],
         [status |-> 404, isArray |-> TRUE,
          items |-> <<E3>>] }

\* A timestamp of an event is a text.  A positive number n stands for the
\* full ISO-8601 text, zone included, of instant n; -n stands for a text of
\* reduced precision (year and month, "2025-11") that begins at instant n.
\* ReducedDate is a round of table B delivered with such timestamps.
ReducedDate == Ev("e7", "B", "n2", "Resolved", 0 - 2, 0 - 3, 7, "Odd", "Red")

\* What the upstream endpoint answers when it abbreviates its timestamps.
Texts == { [status |-> HttpOk, isArray |-> TRUE, items |-> <<ReducedDate>>] }

\* ------------------------------------------------------------- state
VARIABLES
  casino,           \* table casino: set of rows [id, table_id, table_name]
  casinoSeq,        \* casino_id_seq: the next SERIAL value
  roulette_events,  \* table roulette_events: rows in insertion order
  now,              \* the clock of the store (months) when a statement last read NOW()
  variant,          \* which processRouletteData is deployed
  run,              \* per invocation, the locals of processRouletteData:
                    \*   pc        idle, wm, dim, insert, log, logins, done, failed
                    \*   http      response.status
                    \*   batch     validatedFields (events, when the parse threw)
                    \*   pending   watermark queries dispatched, not yet answered
                    \*   wm        casinoLatestSettledMap (latestSettledAt in "global")
                    \*   seen      history: settled_at of each partition's facts
                    \*             at the moment its watermark was read
                    \*   resolved  resolvedEvents / filteredEvents: the to-ingest set
                    \*   tasks     casinoPromises, per table id:
                    \*             none, select, insert, done, failed
                    \*   cache     casinoCache
                    \*   result    processed, Error for a thrown error
                    \*   error     what was thrown: none, http, validation, casino_unique,
                    \*             invalid_fields, undefined_value, foreign_key, storage,
                    \*             invalid_datetime
  runs,             \* invocations started so far
  serial,           \* TRUE when an invocation starts only on a quiet store
  provenance,       \* history: (event, casino_id) of every fact row inserted
  error_logs,       \* table error_logs: rows [error_message, created_at] in
                    \* insertion order
  logged,           \* TRUE when error_logs is part of the model: the catch block
                    \* of a failing invocation then runs logError statement by
                    \* statement before it rethrows
  logger,           \* which logError the catch block calls: inline (a function of
                    \* the script itself), shared (imported from the actions
                    \* module), none when error_logs is not part of the model
  pruner,           \* history: how a watched cleanupOldRouletteEvents ended,
                    \* while it is the last operation on the store:
                    \*   outcome  none, returned, threw
                    \*   deleted  the value of `deleted`, Error when it threw
  probe             \* history: one payload ingested twice in a row (serial runs):
                    \*   stage  off, first, ran, rerun, done
                    \*   batch  the payload; facts, again: the fact table
                    \*   after the first and after the second run

vars == <<casino, casinoSeq, roulette_events, now, variant, run, runs, serial, provenance,
          probe, error_logs, logged, logger, pruner>>

Error == NULL - 1
Terminal == {"idle", "done", "failed"}
GlobalKey == "*"

\* ---------------------------------------------------- pure operators
MaxOf(S) == CHOOSE x \in S : \A y \in S : y <= x

Range(f) == { f[i] : i \in DOMAIN f }

\* SELECT re.settled_at FROM roulette_events re JOIN casino c
\*   ON re.casino_id = c.id WHERE c.table_id = tableId
SettledOf(tableId) ==
  { roulette_events[i].settled_at :
      i \in { j \in DOMAIN roulette_events :
                \E c \in casino : /\ c.id = roulette_events[j].casino_id
                                  /\ c.table_id = tableId } }

\* The query written with MIN for MAX.
EarliestSettledAt(tableId) ==
  IF SettledOf(tableId) = {} THEN NULL
  ELSE CHOOSE x \in SettledOf(tableId) : \A y \in SettledOf(tableId) : x <= y

\* SELECT MAX(re.settled_at) ... WHERE c.table_id = tableId
LatestSettledAt(tableId) ==
  IF SettledOf(tableId) = {} THEN NULL ELSE MaxOf(SettledOf(tableId))

\* SELECT MAX(settled_at) as latest_settled_at FROM roulette_events
GlobalLatestSettledAt ==
  IF roulette_events = <<>> THEN NULL
  ELSE MaxOf({ roulette_events[i].settled_at : i \in DOMAIN roulette_events })

\* The key under which a variant looks up the watermark of an event.
WatermarkKey(v, e) == IF v = "global" THEN GlobalKey ELSE e.table.id

\* The status compared without regard to case.
IsResolvedAnyCase(e) == e.status \in {"Resolved", "resolved"}

\* event.data.status !== 'Resolved' -> false
IsResolved(e) == e.status = "Resolved"

\* new Date(text), z.coerce.date(): the instant a text denotes; a text of
\* reduced precision denotes the instant it begins at.
DateOf(text) == IF text < 0 THEN 0 - text ELSE text

\* The input of a TIMESTAMP WITH TIME ZONE column reads a full date-time text
\* and refuses a year and month without a day.
TimestampRefused(text) == text < 0

\* What a variant hands to the store for a timestamp: the Date its schema
\* coerced, which the driver writes as a full text (ts, global), or the text
\* as it was delivered (js: startedAt: z.string(), started_at:
\* event.data.startedAt).
Passed(v, text) == IF v = "js" THEN text ELSE DateOf(text)

\* The comparison written with >= for >.
NotOlderThan(e, latest) == latest = NULL \/ DateOf(e.settledAt) >= latest

\* The filter without the comparison of the settlement.
WheneverSettled(e, latest) == TRUE

\* if (!latestSettledAt) return true; const eventSettledAt = new
\* Date(event.data.settledAt); return eventSettledAt > latestSettledAt
NewerThan(e, latest) == latest = NULL \/ DateOf(e.settledAt) > latest

\* The predicate of validatedFields.filter(...)
Admit(v, e, w) == IsResolved(e) /\ NewerThan(e, w[WatermarkKey(v, e)])

\* The batch passed on without the filter.
ToIngestAll(v, b, w) == b

\* resolvedEvents (ts, global) / filteredEvents (js)
ToIngest(v, b, w) == SelectSeq(b, LAMBDA e : Admit(v, e, w))

\* uniqueTableIds: the watermark queries a run dispatches
UniqueTableIds(v, b) ==
  CASE v = "ts" -> { b[i].table.id : i \in DOMAIN b }
    [] v = "js" -> { b[i].table.id : i \in { j \in DOMAIN b : IsResolved(b[j]) } }
    [] v = "global" -> {GlobalKey}

\* uniqueTables: table id -> the name of the first event carrying that id
\* (if (!uniqueTables.has(id)) uniqueTables.set(id, name))
FirstIndex(evs, tid) ==
  CHOOSE i \in DOMAIN evs :
    /\ evs[i].table.id = tid
    /\ \A j \in DOMAIN evs : evs[j].table.id = tid => i <= j

\* uniqueTables filled from the first event alone.
UniqueTablesFirstOnly(evs) ==
  [ tid \in { evs[i].table.id : i \in DOMAIN evs \cap {1} } |-> evs[1].table.name ]

UniqueTables(evs) ==
  [ tid \in { evs[i].table.id : i \in DOMAIN evs } |->
      evs[FirstIndex(evs, tid)].table.name ]

\* SELECT id FROM casino WHERE table_id = tableId AND table_name = tableName
CasinoLookup(tableId, tableName) ==
  { c.id : c \in { r \in casino : r.table_id = tableId /\ r.table_name = tableName } }

\* The column declared without UNIQUE.
CasinoNotUnique(tableId) == FALSE

\* table_id TEXT UNIQUE NOT NULL: an INSERT of a present table_id is rejected
CasinoUniqueViolation(tableId) == \E c \in casino : c.table_id = tableId

\* casinoCache.get(data.table.id)
CacheGet(c, e) == c[e.table.id]

\* The row built without its casino_id (the column left to its default).
FactRowNoCasino(e, casinoId, createdAt) ==
  [event_id |-> e.id,
   started_at |-> Passed(variant, e.startedAt),
   settled_at |-> Passed(variant, e.settledAt),
   outcome_number |-> e.result.outcome.number,
   outcome_type |-> e.result.outcome.type,
   outcome_color |-> e.result.outcome.color,
   casino_id |-> NULL,
   created_at |-> createdAt]

\* The row built with outcome_type and outcome_color taken from each other.
FactRowSwapped(e, casinoId, createdAt) ==
  [event_id |-> e.id,
   started_at |-> Passed(variant, e.startedAt),
   settled_at |-> Passed(variant, e.settledAt),
   outcome_number |-> e.result.outcome.number,
   outcome_type |-> e.result.outcome.color,
   outcome_color |-> e.result.outcome.type,
   casino_id |-> casinoId,
   created_at |-> createdAt]

\* One element of rouletteEventsData / eventData
FactRow(e, casinoId, createdAt) ==
  [event_id |-> e.id,
   started_at |-> Passed(variant, e.startedAt),
   settled_at |-> Passed(variant, e.settledAt),
   outcome_number |-> e.result.outcome.number,
   outcome_type |-> e.result.outcome.type,
   outcome_color |-> e.result.outcome.color,
   casino_id |-> casinoId,
   created_at |-> createdAt]

BuildRows(evs, c, createdAt) ==
  [ i \in DOMAIN evs |-> FactRow(evs[i], CacheGet(c, evs[i]), createdAt) ]

\* event_id TEXT UNIQUE: the arbiter of ON CONFLICT (event_id)
Conflicts(tbl, row) == \E i \in DOMAIN tbl : tbl[i].event_id = row.event_id

\* The statement written without its ON CONFLICT clause on a column
\* declared without UNIQUE: every row is appended.
InsertAlways(tbl, row) == Append(tbl, row)

\* The statement written with DO UPDATE SET created_at = EXCLUDED.created_at:
\* the stored row of a re-delivered event is stamped again.
InsertOrTouch(tbl, row) ==
  IF Conflicts(tbl, row)
  THEN [ i \in DOMAIN tbl |->
           IF tbl[i].event_id = row.event_id
           THEN [tbl[i] EXCEPT !.created_at = row.created_at]
           ELSE tbl[i] ]
  ELSE Append(tbl, row)

\* The statement written as an upsert: DO UPDATE SET every column from
\* EXCLUDED but created_at.
InsertOrReplace(tbl, row) ==
  IF Conflicts(tbl, row)
  THEN [ i \in DOMAIN tbl |->
           IF tbl[i].event_id = row.event_id
           THEN [row EXCEPT !.created_at = tbl[i].created_at]
           ELSE tbl[i] ]
  ELSE Append(tbl, row)

\* One row of INSERT ... ON CONFLICT (event_id) DO NOTHING: a row that
\* conflicts with a stored row, or with a row the same statement already
\* inserted, is skipped.
InsertRow(tbl, row) == IF Conflicts(tbl, row) THEN tbl ELSE Append(tbl, row)

\* The statement without ON CONFLICT: one conflicting row and the whole
\* statement stores nothing.
InsertOrAbort(tbl, rows, i) ==
  IF \/ \E k \in DOMAIN rows : Conflicts(tbl, rows[k])
     \/ \E k, l \in DOMAIN rows : k # l /\ rows[k].event_id = rows[l].event_id
  THEN tbl
  ELSE tbl \o rows

\* The rows sent one statement each, the run ending after the first.
InsertFirstOnly(tbl, rows, i) ==
  IF rows = <<>> THEN tbl ELSE InsertRow(tbl, rows[1])

\* INSERT INTO roulette_events ... ON CONFLICT (event_id) DO NOTHING, row by row
RECURSIVE InsertOrSkip(_, _, _)
InsertOrSkip(tbl, rows, i) ==
  IF i > Len(rows) THEN tbl
  ELSE InsertOrSkip(InsertRow(tbl, rows[i]), rows, i + 1)

\* started_at, settled_at TIMESTAMP WITH TIME ZONE NOT NULL: one value the
\* column's input refuses and the statement fails.
DatetimeRefused(rows) ==
  \E i \in DOMAIN rows :
    TimestampRefused(rows[i].started_at) \/ TimestampRefused(rows[i].settled_at)

\* casino_id INTEGER REFERENCES casino(id): NULL passes, a dangling id does not
ForeignKeyViolation(rows) ==
  \E i \in DOMAIN rows :
    rows[i].casino_id # NULL /\ ~ \E c \in casino : c.id = rows[i].casino_id

\* The statement written with <= for <.
ExpiredInclusive(row, today) == row.created_at <= today - RetentionMonths

\* DELETE FROM roulette_events WHERE created_at < threeMonthsAgo
Expired(row, today) == row.created_at < today - RetentionMonths

\* The rows the DELETE statement removes.
ExpiredRows(tbl, today) == { i \in DOMAIN tbl : Expired(tbl[i], today) }

\* `sql` is declared inside main() and not passed on: the tagged template of
\* cleanupOldRouletteEvents raises a ReferenceError before any statement is
\* sent, and so does `logError(sql, ...)` in its catch block.
PrunerThrows(v) == v = "js"

\* deleteResult.count (global): the rows the statement affected;
\* deleteResult.length (ts): the rows the statement returned, and a DELETE
\* without RETURNING returns none.
Deleted(v, tbl, today) ==
  IF v = "global" THEN Cardinality(ExpiredRows(tbl, today)) ELSE Len(<<>>)

\* The instants at which the store's clock is read: the start, and the months
\* from the retention period on (a row of an instant in between ages like one
\* of the start or of the end of the period).
Instants == {0} \cup (RetentionMonths..MaxNow)

\* The clock readings still possible: time never runs backwards.  The clock
\* is only ever compared with created_at, so it starts with the first row of
\* the fact table or of the error log.
Clock ==
  IF roulette_events = <<>> /\ error_logs = <<>> THEN {now}
  ELSE { t \in Instants : t >= now }

\* ------------------------------------------------------------- init
NoTasks == [ t \in TableIds |-> "none" ]
NoCache == [ t \in TableIds |-> NULL ]
NoWm == [ k \in TableIds \cup {GlobalKey} |-> NULL ]
NoSeen == [ t \in TableIds |-> {} ]

Idle ==
  [pc |-> "idle", http |-> NULL, batch |-> <<>>, pending |-> {}, wm |-> NoWm,
   seen |-> NoSeen, resolved |-> <<>>, tasks |-> NoTasks, cache |-> NoCache,
   result |-> NULL, error |-> "none"]

NoProbe ==
  [stage |-> "off", batch |-> [status |-> HttpOk, isArray |-> TRUE, items |-> <<>>],
   facts |-> <<>>, again |-> <<>>]

NoPruner == [outcome |-> "none", deleted |-> NULL]

InitCommon ==
  /\ casino = {}
  /\ casinoSeq = 1
  /\ roulette_events = <<>>
  /\ now = 0
  /\ variant \in Variants
  /\ run = [ p \in Procs |-> Idle ]
  /\ runs = 0
  /\ provenance = {}
  /\ probe = NoProbe
  /\ error_logs = <<>>
  /\ pruner = NoPruner

\* The logError a deployment of variant v can carry: the one defined in the
\* script (process-roulette-data.ts, part_000) or the one imported from
\* '../actions' (the route modules).
Loggers(v) ==
  CASE v = "ts" -> {"inline", "shared"}
    [] v = "js" -> {"inline"}
    [] v = "global" -> {"shared"}

Init == InitCommon /\ serial = FALSE /\ logged = FALSE /\ logger = "none"

InitSerial == InitCommon /\ serial = TRUE /\ logged = FALSE /\ logger = "none"

InitFaults == InitCommon /\ serial = TRUE /\ logged = TRUE /\ logger \in Loggers(variant)

InitOutage == InitCommon /\ serial = FALSE /\ logged = TRUE /\ logger \in Loggers(variant)

\* ----------------------------------------------------------- history
\* An invocation has returned or thrown, leaving the fact table `facts`.
Completed(pr, facts) ==
  probe' = CASE pr.stage = "first" -> [pr EXCEPT !.stage = "ran", !.facts = facts]
             [] pr.stage = "rerun" -> [pr EXCEPT !.stage = "done", !.again = facts]
             [] OTHER -> pr

\* ------------------------------------------------------------ actions
\* The locals of an invocation that has returned `processed` or thrown: the
\* to-ingest set and the outcome stay visible, tasks still in flight (ts and
\* js: siblings of a rejected promise) stay in flight.
Returned(r, evs, res, err) ==
  [Idle EXCEPT !.pc = IF res = Error THEN "failed" ELSE "done",
               !.http = r.http,
               !.resolved = evs,
               !.tasks = r.tasks,
               !.result = res,
               !.error = err]

\* `return { processed: n }` of invocation p whose locals are r.
Return(p, r, evs, n, facts) ==
  /\ run' = [run EXCEPT ![p] = Returned(r, evs, n, "none")]
  /\ Completed(probe, facts)

\* catch (error): the ts variant (if error instanceof Error) and the js
\* variant `await logError(...)` before `throw error`; the global variant
\* rethrows at once.
LogsErrors(v) == v # "global"

\* The locals r of an invocation that threw, on entering its catch block.
Catch(r) == IF logged /\ LogsErrors(variant) THEN [r EXCEPT !.pc = "log"] ELSE r

\* An error thrown in the try block of invocation p whose locals are r; the
\* fact table is as it was.
Throw(p, r, err) ==
  /\ run' = [run EXCEPT ![p] = Catch(Returned(r, r.resolved, Error, err))]
  /\ Completed(probe, roulette_events)

\* The filter without the test for an empty to-ingest set.
AfterWatermarksNoShortCircuit(p, r) ==
  LET evs == ToIngest(variant, r.batch, r.wm) IN
  /\ run' = [run EXCEPT ![p] =
         [r EXCEPT !.pc = "dim",
                   !.resolved = evs,
                   !.tasks = [ t \in TableIds |->
                       IF t \in DOMAIN UniqueTables(evs) THEN "select"
                       ELSE "none" ]]]
  /\ UNCHANGED probe

\* The filter and what follows it up to the next await: the empty
\* short-circuit, or uniqueTables and the dispatch of casinoPromises.
AfterWatermarks(p, r) ==
  LET evs == ToIngest(variant, r.batch, r.wm) IN
  IF evs = <<>>
  THEN Return(p, r, evs, 0, roulette_events)
  ELSE /\ run' = [run EXCEPT ![p] =
              [r EXCEPT !.pc = "dim",
                        !.resolved = evs,
                        !.tasks = [ t \in TableIds |->
                            IF t \in DOMAIN UniqueTables(evs) THEN "select"
                            ELSE "none" ]]]
       /\ UNCHANGED probe

\* A slot is free once its invocation has returned or thrown and none of its
\* tasks is still in flight; a new invocation takes the first free slot.
Free(p) ==
  /\ run[p].pc \in Terminal
  /\ \A t \in TableIds : run[p].tasks[t] \notin {"select", "insert"}

\* RouletteDataSchema with RouletteOutcomeSchema: every field is required;
\* the parity and the color are closed sets in schemas.ts and any string in
\* the js variant.
EventFields == {"id", "startedAt", "settledAt", "status", "gameType", "table", "result"}

\* type: z.literal(["Even", "Odd"]), color: z.literal(["Red", "Black", "Green"])
OutcomeTypes == {"Even", "Odd"}
OutcomeColors == {"Red", "Black", "Green"}

WellFormed(v, x) ==
  /\ DOMAIN x = EventFields
  /\ v # "js" => /\ x.result.outcome.type \in OutcomeTypes
                 /\ x.result.outcome.color \in OutcomeColors

\* The parse that keeps the array and does not look at its elements.
ValidArray(v, payload) == payload.isArray

\* RouletteEventsArraySchema.parse(events) does not throw
Valid(v, payload) ==
  /\ payload.isArray
  /\ \A i \in DOMAIN payload.items : WellFormed(v, payload.items[i])

\* response.ok (ts, global): a status from 200 to 299;
\* response.status !== 200 (js)
HttpError(v, status) ==
  IF v = "js" THEN status # HttpOk ELSE status < HttpOk \/ status > HttpOk + 99

\* The history of a run that starts: a marked run is the first of two with the
\* same payload, and the run after it is the second.
Watch(b, mark) ==
  CASE mark -> [NoProbe EXCEPT !.stage = "first", !.batch = b]
    [] probe.stage = "ran" -> [probe EXCEPT !.stage = "rerun"]
    [] OTHER -> probe

\* createTables(); fetchRouletteData() with its test of the status;
\* RouletteEventsArraySchema.parse(events); the watermark queries are dispatched.
Start(p, payload, mark) ==
  /\ Free(p)
  /\ \A q \in Procs : q < p => ~ Free(q)
  /\ runs < MaxRuns \/ probe.stage = "ran"
  /\ serial => \A q \in Procs : Free(q)
  /\ mark => serial /\ ~ logged /\ probe.stage = "off"
  /\ probe.stage = "ran" => payload = probe.batch
  /\ runs' = runs + 1
  /\ LET b == payload.items
         r == [Idle EXCEPT !.http = payload.status, !.batch = b, !.pc = "wm",
                           !.pending = UniqueTableIds(variant, b)]
         pr == Watch(payload, mark)
     IN CASE HttpError(variant, payload.status) ->
               \* throw new Error(`HTTP error! status: ${response.status}`)
               /\ run' = [run EXCEPT ![p] =
                      Catch([Idle EXCEPT !.pc = "failed", !.http = payload.status,
                                         !.result = Error, !.error = "http"])]
               /\ Completed(pr, roulette_events)
          [] ~ HttpError(variant, payload.status) /\ ~ Valid(variant, payload) ->
               \* the ZodError leaves the try block: nothing was read or written
               /\ run' = [run EXCEPT ![p] =
                      Catch([Idle EXCEPT !.pc = "failed", !.http = payload.status,
                                         !.batch = b,
                                         !.result = Error, !.error = "validation"])]
               /\ Completed(pr, roulette_events)
          [] /\ ~ HttpError(variant, payload.status)
             /\ Valid(variant, payload)
             /\ r.pending = {} ->
               \* js: no "Resolved" event, return { processed: 0 };
               \* ts: Promise.all([]) resolves at once, the filter finds nothing
               /\ run' = [run EXCEPT ![p] = Returned(r, ToIngest(variant, b, NoWm), 0, "none")]
               /\ Completed(pr, roulette_events)
          [] OTHER -> run' = [run EXCEPT ![p] = r] /\ probe' = pr
  /\ UNCHANGED <<casino, casinoSeq, roulette_events, now, variant, serial, provenance>>
  /\ pruner' = NoPruner
  /\ UNCHANGED <<error_logs, logged, logger>>

\* The filter run on the first answer (Promise.race for Promise.all).
ReadWatermarkFirst(p, k) ==
  /\ run[p].pc = "wm"
  /\ k \in run[p].pending
  /\ LET latest == IF k = GlobalKey THEN GlobalLatestSettledAt ELSE LatestSettledAt(k)
         r == [run[p] EXCEPT
                 !.wm[k] = latest,
                 !.pending = {},
                 !.seen = [ t \in TableIds |->
                     IF k = GlobalKey \/ k = t THEN SettledOf(t) ELSE @[t] ]]
     IN AfterWatermarks(p, r)
  /\ UNCHANGED <<casino, casinoSeq, roulette_events, now, variant, runs, serial, provenance>>
  /\ pruner' = NoPruner
  /\ UNCHANGED <<error_logs, logged, logger>>

\* One watermark query answers; the last answer lets the filter run.
ReadWatermark(p, k) ==
  /\ run[p].pc = "wm"
  /\ k \in run[p].pending
  /\ LET latest == IF k = GlobalKey THEN GlobalLatestSettledAt ELSE LatestSettledAt(k)
         r == [run[p] EXCEPT
                 !.wm[k] = latest,
                 !.pending = @ \ {k},
                 !.seen = [ t \in TableIds |->
                     IF k = GlobalKey \/ k = t THEN SettledOf(t) ELSE @[t] ]]
     IN IF r.pending = {}
        THEN AfterWatermarks(p, r)
        ELSE run' = [run EXCEPT ![p] = r] /\ UNCHANGED probe
  /\ UNCHANGED <<casino, casinoSeq, roulette_events, now, variant, runs, serial, provenance>>
  /\ pruner' = NoPruner
  /\ UNCHANGED <<error_logs, logged, logger>>

\* The order of `for (const [tableId, tableName] of uniqueTables)`: table ids
\* by first appearance in the to-ingest set.
Earlier(evs, t1, t2) == FirstIndex(evs, t1) < FirstIndex(evs, t2)

\* Which dimension task may take its next step: any of them under
\* Promise.all (ts, js), the first unfinished one in the loop (global).
MayStep(p, t) ==
  /\ run[p].pc \in {"dim", "log", "logins", "failed"}
  /\ run[p].tasks[t] \in {"select", "insert"}
  /\ variant = "global" =>
       \A u \in TableIds \ {t} :
         run[p].tasks[u] \in {"select", "insert"} => Earlier(run[p].resolved, t, u)

\* The rows built as soon as one dimension task has ended.
SomeResolved(ts) == \E t \in TableIds : ts[t] = "done"

\* await Promise.all(casinoPromises) / the end of the loop
AllResolved(ts) == \A t \in TableIds : ts[t] \in {"none", "done"}

\* if (!casinoId) throw new Error("Invalid fields!") (ts, global).  The js
\* variant builds the row without the test, and the driver (postgres.js)
\* refuses an undefined value in the insert helper.
MissingCasino(evs, c) == \E i \in DOMAIN evs : CacheGet(c, evs[i]) = NULL

MissingCasinoError == IF variant = "js" THEN "undefined_value" ELSE "invalid_fields"

\* A dimension task ended with surrogate id `id`; when it was the last one
\* the rows are built and the bulk insert is next.
TaskDone(p, t, id) ==
  LET r == [run[p] EXCEPT !.tasks[t] = "done", !.cache[t] = id] IN
  IF r.pc = "dim" /\ AllResolved(r.tasks)
  THEN IF MissingCasino(r.resolved, r.cache)
       THEN Throw(p, r, MissingCasinoError)
       ELSE run' = [run EXCEPT ![p] = [r EXCEPT !.pc = "insert"]] /\ UNCHANGED probe
  ELSE run' = [run EXCEPT ![p] = r] /\ UNCHANGED probe

\* SELECT id FROM casino WHERE table_id = ... AND table_name = ...
SelectCasino(p, t) ==
  /\ MayStep(p, t)
  /\ run[p].tasks[t] = "select"
  /\ LET found == CasinoLookup(t, UniqueTables(run[p].resolved)[t]) IN
     IF found = {}
     THEN run' = [run EXCEPT ![p].tasks[t] = "insert"] /\ UNCHANGED probe
     ELSE TaskDone(p, t, CHOOSE id \in found : TRUE)
  /\ UNCHANGED <<casino, casinoSeq, roulette_events, now, variant, runs, serial, provenance>>
  /\ pruner' = NoPruner
  /\ UNCHANGED <<error_logs, logged, logger>>

\* The insert written as an upsert: ON CONFLICT (table_id) DO UPDATE SET
\* table_name = EXCLUDED.table_name RETURNING id.
InsertCasinoUpsert(p, t) ==
  /\ MayStep(p, t)
  /\ run[p].tasks[t] = "insert"
  /\ casinoSeq' = casinoSeq + 1
  /\ LET name == UniqueTables(run[p].resolved)[t]
         old == { c \in casino : c.table_id = t }
         id == IF old = {} THEN casinoSeq ELSE (CHOOSE c \in old : TRUE).id
     IN /\ casino' = (casino \ old) \cup {[id |-> id, table_id |-> t, table_name |-> name]}
        /\ TaskDone(p, t, id)
  /\ UNCHANGED <<roulette_events, now, variant, runs, serial, provenance>>
  /\ pruner' = NoPruner
  /\ UNCHANGED <<error_logs, logged, logger>>

\* The task that answers a rejected insert by looking the row up again.
InsertCasinoRetry(p, t) ==
  /\ MayStep(p, t)
  /\ run[p].tasks[t] = "insert"
  /\ casinoSeq' = casinoSeq + 1
  /\ IF CasinoUniqueViolation(t)
     THEN /\ UNCHANGED casino
          /\ run' = [run EXCEPT ![p].tasks[t] = "select"]
          /\ UNCHANGED probe
     ELSE /\ casino' = casino \cup
                {[id |-> casinoSeq, table_id |-> t,
                  table_name |-> UniqueTables(run[p].resolved)[t]]}
          /\ TaskDone(p, t, casinoSeq)
  /\ UNCHANGED <<roulette_events, now, variant, runs, serial, provenance>>
  /\ pruner' = NoPruner
  /\ UNCHANGED <<error_logs, logged, logger>>

\* INSERT INTO casino (table_id, table_name) VALUES (...) RETURNING id.
\* The SERIAL default is drawn before the UNIQUE check, so a rejected insert
\* still consumes a sequence value.  The rejection is not caught by the task:
\* Promise.all rejects (ts, js) or the loop is left (global), and the run
\* throws; under Promise.all the sibling tasks stay in flight.
InsertCasino(p, t) ==
  /\ MayStep(p, t)
  /\ run[p].tasks[t] = "insert"
  /\ casinoSeq' = casinoSeq + 1
  /\ IF CasinoUniqueViolation(t)
     THEN /\ UNCHANGED casino
          /\ LET r == [run[p] EXCEPT !.tasks =
                         IF variant = "global" THEN [NoTasks EXCEPT ![t] = "failed"]
                         ELSE [@ EXCEPT ![t] = "failed"]]
             IN IF r.pc = "dim"
                THEN Throw(p, r, "casino_unique")
                ELSE run' = [run EXCEPT ![p] = r] /\ UNCHANGED probe
     ELSE /\ casino' = casino \cup
                {[id |-> casinoSeq, table_id |-> t,
                  table_name |-> UniqueTables(run[p].resolved)[t]]}
          /\ TaskDone(p, t, casinoSeq)
  /\ UNCHANGED <<roulette_events, now, variant, runs, serial, provenance>>
  /\ pruner' = NoPruner
  /\ UNCHANGED <<error_logs, logged, logger>>

\* processed reported as the number of rows the statement stored.
ProcessedInserted(evs) ==
  Cardinality({ evs[i].id : i \in DOMAIN evs } \
              { roulette_events[j].event_id : j \in DOMAIN roulette_events })

\* return { processed: resolvedEvents.length }
Processed(evs) == Len(evs)

\* The rows of one statement that ON CONFLICT lets through.
Inserted(tbl, rows) ==
  { i \in DOMAIN rows :
      /\ ~ Conflicts(tbl, rows[i])
      /\ \A j \in 1..(i - 1) : rows[j].event_id # rows[i].event_id }

\* INSERT INTO roulette_events ... ON CONFLICT (event_id) DO NOTHING, with
\* created_at DEFAULT NOW() = today; return { processed: resolvedEvents.length }
BulkInsert(p, today) ==
  /\ run[p].pc = "insert"
  /\ now' = today
  /\ LET r == run[p]
         rows == BuildRows(r.resolved, r.cache, today)
     IN IF ForeignKeyViolation(rows) \/ DatetimeRefused(rows)
        THEN /\ Throw(p, r, IF DatetimeRefused(rows) THEN "invalid_datetime"
                                                      ELSE "foreign_key")
             /\ UNCHANGED <<roulette_events, provenance>>
        ELSE /\ roulette_events' = InsertOrSkip(roulette_events, rows, 1)
             /\ provenance' = provenance \cup
                   { [ev |-> r.resolved[i], casino_id |-> rows[i].casino_id] :
                       i \in Inserted(roulette_events, rows) }
             /\ Return(p, r, r.resolved, Processed(r.resolved), roulette_events')
  /\ UNCHANGED <<casino, casinoSeq, variant, runs, serial>>
  /\ pruner' = NoPruner
  /\ UNCHANGED <<error_logs, logged, logger>>

\* The history of a pruner invocation: its outcome is kept when the invocation
\* is watched, and invocations are watched only when they come one at a time.
Watched(watch, outcome, deleted) ==
  IF watch THEN [outcome |-> outcome, deleted |-> deleted] ELSE NoPruner

\* The pruner that also deletes the dimension rows it leaves without a fact.
PruneOrphans(today, watch) ==
  /\ watch => serial /\ ~ logged
  /\ now' = today
  /\ roulette_events' = SelectSeq(roulette_events, LAMBDA row : ~ Expired(row, today))
  /\ casino' = { c \in casino :
                   \E i \in DOMAIN roulette_events' : roulette_events'[i].casino_id = c.id }
  /\ pruner' = Watched(watch, "returned", Deleted(variant, roulette_events, today))
  /\ probe' = IF probe.stage = "done" THEN probe ELSE NoProbe
  /\ UNCHANGED <<casinoSeq, variant, run, runs, serial, provenance, error_logs, logged, logger>>

\* cleanupOldRouletteEvents: one DELETE statement, `today` being new Date(),
\* and `return { deleted: deletedCount }`; or the ReferenceError, thrown
\* again from the catch block, with the store as it was.
Prune(today, watch) ==
  /\ watch => serial /\ ~ logged
  /\ IF PrunerThrows(variant)
     THEN /\ pruner' = Watched(watch, "threw", Error)
          /\ UNCHANGED <<roulette_events, now>>
     ELSE /\ now' = today
          /\ roulette_events' = SelectSeq(roulette_events, LAMBDA row : ~ Expired(row, today))
          /\ pruner' = Watched(watch, "returned", Deleted(variant, roulette_events, today))
  /\ probe' = IF probe.stage = "done" THEN probe ELSE NoProbe
  /\ UNCHANGED <<casino, casinoSeq, variant, run, runs, serial, provenance, error_logs, logged, logger>>

Next ==
  \/ \E p \in Procs, payload \in Payloads, mark \in BOOLEAN : Start(p, payload, mark)
  \/ \E p \in Procs, k \in TableIds \cup {GlobalKey} : ReadWatermark(p, k)
  \/ \E p \in Procs, t \in TableIds : SelectCasino(p, t)
  \/ \E p \in Procs, t \in TableIds : InsertCasino(p, t)
  \/ \E p \in Procs, today \in Clock : BulkInsert(p, today)
  \/ \E today \in Clock, watch \in BOOLEAN : Prune(today, watch)

Spec == Init /\ [][Next]_vars

\* error.message: one message per kind of error, the status being part of
\* the message of an HTTP error.
Message(r) == [kind |-> r.error, status |-> IF r.error = "http" THEN r.http ELSE NULL]

\* The lookup of both loggers written with the test of the message.
RecentErrorSameMessage(msg, today) ==
  \E i \in DOMAIN error_logs :
    /\ error_logs[i].error_message = msg
    /\ error_logs[i].created_at >= today

\* SELECT id FROM error_logs WHERE error_message = ... AND created_at >
\* twentyFourHoursAgo LIMIT 1 finds a row (inline); the shared logger's
\* statement is WHERE created_at > twentyFourHoursAgo LIMIT 1, without the
\* message.  The clock counts months: a row is younger than 24 hours when it
\* was created at this reading of the clock.
RecentError(msg, today) ==
  \E i \in DOMAIN error_logs :
    /\ logger = "inline" => error_logs[i].error_message = msg
    /\ error_logs[i].created_at >= today

\* logError: the lookup of a recent row with the same message; `today` is
\* Date.now().  A row found ends logError and the catch block rethrows.
LogSelect(p, today) ==
  /\ run[p].pc = "log"
  /\ now' = today
  /\ run' = [run EXCEPT ![p].pc =
         IF RecentError(Message(run[p]), today) THEN "failed" ELSE "logins"]
  /\ pruner' = NoPruner
  /\ UNCHANGED <<casino, casinoSeq, roulette_events, variant, runs, serial, provenance,
                 probe, error_logs, logged, logger>>

\* logError: INSERT INTO error_logs (error_message, error_stack, context),
\* created_at DEFAULT NOW() = today; then `throw error`.
LogInsert(p, today) ==
  /\ run[p].pc = "logins"
  /\ now' = today
  /\ error_logs' = Append(error_logs,
         [error_message |-> Message(run[p]), created_at |-> today])
  /\ run' = [run EXCEPT ![p].pc = "failed"]
  /\ pruner' = NoPruner
  /\ UNCHANGED <<casino, casinoSeq, roulette_events, variant, runs, serial, provenance,
                 probe, logged, logger>>

\* A statement of logError is refused by the store: the lookup's error is
\* caught by logError's own try block, the insert's by its .catch(); the
\* catch block of the invocation goes on to `throw error`.
LogFails(p) ==
  /\ run[p].pc \in {"log", "logins"}
  /\ run' = [run EXCEPT ![p].pc = "failed"]
  /\ pruner' = NoPruner
  /\ UNCHANGED <<casino, casinoSeq, roulette_events, now, variant, runs, serial,
                 provenance, probe, error_logs, logged, logger>>

\* The failure handled with a rollback of the casino rows of the run's cache.
BulkInsertRollsBack(p) ==
  /\ run[p].pc = "insert"
  /\ Throw(p, run[p], "storage")
  /\ casino' = { c \in casino : c.id \notin Range(run[p].cache) }
  /\ pruner' = NoPruner
  /\ UNCHANGED <<casinoSeq, roulette_events, now, variant, runs, serial,
                 provenance, error_logs, logged, logger>>

\* The bulk insert is refused by the store (connection lost, statement
\* timeout): the statement stores nothing and its error is thrown.
BulkInsertFails(p) ==
  /\ run[p].pc = "insert"
  /\ Throw(p, run[p], "storage")
  /\ pruner' = NoPruner
  /\ UNCHANGED <<casino, casinoSeq, roulette_events, now, variant, runs, serial,
                 provenance, error_logs, logged, logger>>

\* A watermark query is refused by the store: Promise.all rejects (ts, js) or
\* the await throws (global), and the error is thrown with nothing written.
ReadWatermarkFails(p) ==
  /\ run[p].pc = "wm"
  /\ Throw(p, run[p], "storage")
  /\ pruner' = NoPruner
  /\ UNCHANGED <<casino, casinoSeq, roulette_events, now, variant, runs, serial,
                 provenance, error_logs, logged, logger>>

\* The steps of logError.
LogNext ==
  \/ \E p \in Procs, today \in Clock : LogSelect(p, today)
  \/ \E p \in Procs, today \in Clock : LogInsert(p, today)
  \/ \E p \in Procs : LogFails(p)

NextFaults ==
  \/ Next
  \/ \E p \in Procs, answer \in Answers : Start(p, answer, FALSE)
  \/ \E p \in Procs : BulkInsertFails(p)
  \/ \E p \in Procs : ReadWatermarkFails(p)
  \/ LogNext

\* Invocations one after the other against an upstream that may answer with
\* another status than 200 and a store that may refuse the bulk insert and
\* the statements of logError; the error log is part of the model.
SpecFaults == InitFaults /\ [][NextFaults]_vars

NextOutage ==
  \/ \E p \in Procs, answer \in Outages : Start(p, answer, FALSE)
  \/ LogNext

\* The upstream is down and invocations overlap: every invocation fails on
\* the status and records its error.
SpecOutage == InitOutage /\ [][NextOutage]_vars

\* Invocations one after the other, no other operation in between: an
\* invocation starts once the earlier ones have returned or thrown and the
\* dimension tasks a failed one left behind have ended.
SpecSerial == InitSerial /\ [][Next]_vars

NextTexts ==
  \/ Next
  \/ \E p \in Procs, payload \in Texts, mark \in BOOLEAN : Start(p, payload, mark)

\* Invocations one after the other against an upstream that may abbreviate
\* its timestamps.
SpecTexts == InitSerial /\ [][NextTexts]_vars

\* An operation invocation p awaits completes, with a result or an error.
Step(p) ==
  \/ \E k \in TableIds \cup {GlobalKey} : ReadWatermark(p, k)
  \/ ReadWatermarkFails(p)
  \/ \E t \in TableIds : SelectCasino(p, t)
  \/ \E t \in TableIds : InsertCasino(p, t)
  \/ \E today \in Clock : BulkInsert(p, today)
  \/ BulkInsertFails(p)
  \/ \E today \in Clock : LogSelect(p, today)
  \/ \E today \in Clock : LogInsert(p, today)
  \/ LogFails(p)

\* SpecFaults with every awaited operation completing in the end: the event
\* loop resumes an invocation whenever the operation it awaits has settled.
SpecLive == InitFaults /\ [][NextFaults]_vars /\ \A p \in Procs : WF_vars(Step(p))

\* ----------------------------------------------------------- callers
\* The answer that carries the kind of the error it caught.
GETLeaky(r) ==
  IF r.result # Error
  THEN [status |-> HttpOk,
        body |-> [message |-> "Datos de roulette procesados exitosamente",
                  processedEvents |-> r.result]]
  ELSE [status |-> 500, body |-> [error |-> r.error]]

\* export async function GET: the answer of the route to an invocation whose
\* locals ended as r.  NextResponse.json(body) answers with status 200, the
\* catch block with { status: 500 }.
GET(r) ==
  IF r.result # Error
  THEN [status |-> HttpOk,
        body |-> [message |-> "Datos de roulette procesados exitosamente",
                  processedEvents |-> r.result]]
  ELSE [status |-> 500, body |-> [error |-> "Error interno del servidor"]]

\* async function main(): process.exit(0) at the end of the try block,
\* process.exit(1) in the catch block.
Exit(threw) == IF threw THEN 1 ELSE 0

\* ------------------------------------------------------------ claims
InFlight(p) == run[p].pc \in {"dim", "insert"}

UniqueEventIds(tbl) ==
  \A i, j \in DOMAIN tbl : tbl[i].event_id = tbl[j].event_id => i = j

\* The table id of the dimension row a fact row references.
PartitionOf(row) == { c.table_id : c \in { d \in casino : d.id = row.casino_id } }

\* C1: when a payload is ingested twice in a row, with nothing in between,
\* the fact table after the second run is the fact table after the first run,
\* row for row, and holds no external event id twice.
C1_Idempotent ==
  probe.stage = "done" =>
    /\ probe.again = probe.facts
    /\ UniqueEventIds(probe.again)

\* The second run admitted an event again and left the facts as they were.
C1_Witness ==
  /\ probe.stage = "done"
  /\ probe.facts # <<>>
  /\ \E p \in Procs :
       /\ run[p].pc = "done"
       /\ run[p].result > 0
       /\ \A i \in DOMAIN run[p].resolved :
            /\ run[p].resolved[i] \in Range(probe.batch.items)
            /\ Conflicts(probe.facts, [event_id |-> run[p].resolved[i].id])

\* C2: under any interleaving of ingest and prune steps no two fact rows
\* share an external event id; the bulk insert of an invocation never throws,
\* and every event an invocation that returned had admitted was stored by it
\* or by another invocation.
C2_UniqueEventId ==
  /\ UniqueEventIds(roulette_events)
  /\ \A p \in Procs :
       /\ run[p].error # "foreign_key"
       /\ run[p].pc = "done" =>
            \A i \in DOMAIN run[p].resolved :
              \E x \in provenance : x.ev.id = run[p].resolved[i].id

\* Two invocations admitted the same event (neither saw the other's write),
\* both returned, and the event is stored once.
C2_Witness ==
  /\ now = 0
  /\ run[1].pc = "done" /\ run[2].pc = "done"
  /\ \E i \in DOMAIN run[1].resolved :
       /\ run[1].resolved[i] \in Range(run[2].resolved)
       /\ Cardinality({ j \in DOMAIN roulette_events :
            roulette_events[j].event_id = run[1].resolved[i].id }) = 1

\* C3: with invocations one after the other, every event in a run's
\* to-ingest set is settled strictly later than every stored fact of its
\* partition: an event at or before the partition's latest settlement is
\* never admitted.
C3_WatermarkMonotone ==
  \A p \in Procs :
    InFlight(p) =>
      \A i \in DOMAIN run[p].resolved :
        \A s \in SettledOf(run[p].resolved[i].table.id) :
          run[p].resolved[i].settledAt > s

\* A run dropped a Resolved event at or before its partition's latest
\* settlement while admitting another event.
C3_Witness ==
  \E p \in Procs :
    /\ InFlight(p)
    /\ \E i \in DOMAIN run[p].batch :
         LET e == run[p].batch[i] IN
         /\ e.status = "Resolved"
         /\ LatestSettledAt(e.table.id) # NULL
         /\ e.settledAt <= LatestSettledAt(e.table.id)
         /\ e \notin Range(run[p].resolved)

\* The batch of the scenario: two events, one Resolved and one Pending.
OneResolvedOnePending(b) ==
  /\ Len(b) = 2
  /\ \E i, j \in DOMAIN b : b[i].status = "Resolved" /\ b[j].status = "Pending"

\* C4: every fact row ever stored comes from an event whose status is
\* exactly "Resolved"; events of another status are not in the to-ingest set,
\* are not counted in processed and raise no error (a run that got past the
\* fetch and the parse throws only with a to-ingest set); on an empty store a batch
\* of one Resolved and one Pending event returns processed = 1 and stores
\* the Resolved event alone.
C4_StatusFilter ==
  [][ /\ \A x \in provenance' : x.ev.status = "Resolved"
      /\ \A p \in Procs :
           /\ \A i \in DOMAIN run'[p].resolved : run'[p].resolved[i].status = "Resolved"
           /\ run'[p].pc = "done" => run'[p].result = Len(run'[p].resolved)
           /\ ( /\ run'[p].pc = "failed"
                /\ run'[p].error \notin {"http", "validation"} )
              => run'[p].resolved # <<>>
           /\ ( /\ run[p].pc = "insert"
                /\ run'[p].pc = "done"
                /\ roulette_events = <<>>
                /\ OneResolvedOnePending(run[p].batch) )
              => /\ run'[p].result = 1
                 /\ Len(roulette_events') = 1
                 /\ \E i \in DOMAIN run[p].batch :
                      /\ run[p].batch[i].status = "Resolved"
                      /\ roulette_events'[1].event_id = run[p].batch[i].id
    ]_vars

\* The scenario has run: a batch of a Resolved and a Pending event, one fact.
C4_Witness ==
  /\ Len(roulette_events) = 1
  /\ probe.stage = "ran"
  /\ OneResolvedOnePending(probe.batch.items)
  /\ probe.facts = roulette_events
  /\ \E p \in Procs : run[p].pc = "done" /\ run[p].result = 1

\* The step in which invocation p runs its filter: the last watermark answers.
FilterRuns(p) == run[p].pc = "wm" /\ run'[p].pc # "wm"

\* The settlement timestamps of partition t's facts when p read (or, in the
\* filter's own step, reads) the watermark that covers t.
SeenAtFilter(p, t) ==
  IF run[p].pending \cap {t, GlobalKey} # {} THEN SettledOf(t) ELSE run[p].seen[t]

\* Resolved, and settled strictly after every fact of the own partition.
OwnPartitionAdmits(p, e) ==
  /\ e.status = "Resolved"
  /\ \A s \in SeenAtFilter(p, e.table.id) : e.settledAt > s

\* C5: in every run, whichever variant is deployed, the to-ingest set is exactly the
\* batch events that are Resolved and whose partition had no fact, or only
\* facts settled strictly earlier, when the watermark was read.
C5_FilterContract ==
  [][ \A p \in Procs :
        FilterRuns(p) =>
          run'[p].resolved =
            SelectSeq(run[p].batch, LAMBDA e : OwnPartitionAdmits(p, e))
    ]_vars

\* C6: under every variant, a Resolved event settled after every fact of its
\* own partition is admitted, whatever is stored for other partitions.
C6_OwnPartitionOnly ==
  [][ \A p \in Procs :
        FilterRuns(p) =>
          \A i \in DOMAIN run[p].batch :
            OwnPartitionAdmits(p, run[p].batch[i]) =>
              run[p].batch[i] \in Range(run'[p].resolved)
    ]_vars

\* C7 as stated: with invocations one after the other, no event in a run's
\* to-ingest set has an external event id that the fact table holds.
C7_NeverReadmits ==
  \A p \in Procs :
    InFlight(p) =>
      \A i \in DOMAIN run[p].resolved :
        ~ Conflicts(roulette_events, [event_id |-> run[p].resolved[i].id])

\* C7 amended: with invocations one after the other, an event in a run's
\* to-ingest set whose external event id is stored for its own partition is
\* settled strictly later than the stored row; an event delivered again
\* unchanged is never admitted again.
C7_ReadmitsOnlyLater ==
  \A p \in Procs :
    InFlight(p) =>
      \A i \in DOMAIN run[p].resolved :
        \A j \in DOMAIN roulette_events :
          ( /\ roulette_events[j].event_id = run[p].resolved[i].id
            /\ run[p].resolved[i].table.id \in PartitionOf(roulette_events[j]) )
          => run[p].resolved[i].settledAt > roulette_events[j].settled_at

\* A run has admitted an event whose id is stored, delivered again with a
\* later settlement.
C7_Witness ==
  \E p \in Procs :
    /\ InFlight(p)
    /\ \E i \in DOMAIN run[p].resolved :
         \E j \in DOMAIN roulette_events :
           /\ roulette_events[j].event_id = run[p].resolved[i].id
           /\ run[p].resolved[i].table.id \in PartitionOf(roulette_events[j])

\* C8: under any interleaving of ingest and prune, every fact row carries a
\* casino_id that is not NULL and is the id of a stored casino row.
C8_ReferentialIntegrity ==
  \A i \in DOMAIN roulette_events :
    /\ roulette_events[i].casino_id # NULL
    /\ \E c \in casino : c.id = roulette_events[i].casino_id

\* Facts of two partitions are stored once the clock has passed the
\* retention period.
C8_Witness ==
  /\ now >= RetentionMonths
  /\ \E i, j \in DOMAIN roulette_events :
       roulette_events[i].casino_id # roulette_events[j].casino_id

\* C9: no invocation fails on the insert of a casino row whose (table_id,
\* table_name) pair is stored: the loser of a concurrent get-or-create
\* fetches the existing row and goes on.
C9_LoserRefetches ==
  \A p \in Procs :
    \A t \in TableIds :
      run[p].tasks[t] = "failed" =>
        CasinoLookup(t, UniqueTables(run[p].resolved)[t]) = {}

\* C10: all facts created from events of one (table id, table name) pair
\* reference one casino row, and no pair is stored in two casino rows.
C10_DimensionReuse ==
  /\ \A x, y \in provenance : x.ev.table = y.ev.table => x.casino_id = y.casino_id
  /\ \A c, d \in casino :
       c.table_id = d.table_id /\ c.table_name = d.table_name => c.id = d.id

\* Two runs have stored facts of one pair: the later one found the casino
\* row and created none.
C10_Witness ==
  /\ Cardinality(casino) = 1
  /\ casinoSeq = 2
  /\ run[1].pc = "done" /\ Len(run[1].resolved) = 1
  /\ \E x, y \in provenance :
       /\ x.ev.id # y.ev.id
       /\ x.ev.table = y.ev.table
       /\ x.ev = run[1].resolved[1]

\* The name under which invocation p looks up or inserts table t.
NameSought(p, t) == UniqueTables(run[p].resolved)[t]

\* Table t is stored under a display name other than the one p carries.
Renamed(p, t) ==
  \E c \in casino : c.table_id = t /\ c.table_name # NameSought(p, t)

C12_OneRowPerTable ==
  [][ /\ \A c, d \in casino' : c.table_id = d.table_id => c = d
      /\ casino \subseteq casino'
    ]_vars

\* Both tables are stored, and a second insert for one of them was rejected.
C12_Witness ==
  /\ Cardinality(casino) = 2
  /\ \E p \in Procs : run[p].error = "casino_unique"

\* C13: every fact row stored references the casino row that carries both
\* the table id and the table name of the event it was built from.
C13_FactMatchesPair ==
  \A x \in provenance :
    \E c \in casino :
      /\ c.id = x.casino_id
      /\ c.table_id = x.ev.table.id
      /\ c.table_name = x.ev.table.name

\* C14: a run whose filter admits nothing returns processed = 0 in the very
\* step in which the filter runs, and that step leaves the casino table, its
\* sequence and the fact table as they are; no run goes on to the dimension
\* stage or the bulk insert with an empty to-ingest set.
C14_EmptyShortCircuit ==
  [][ \A p \in Procs :
        /\ ( /\ run'[p] # run[p]
             /\ run'[p].pc = "done"
             /\ run'[p].resolved = <<>> )
           => /\ run'[p].result = 0
              /\ run[p].pc \in Terminal \cup {"wm"}
              /\ casino' = casino
              /\ casinoSeq' = casinoSeq
              /\ roulette_events' = roulette_events
        /\ run'[p].pc \in {"dim", "insert"} => run'[p].resolved # <<>>
    ]_vars

\* On a store that holds facts, a run admitted nothing and returned 0.
C14_Witness ==
  /\ roulette_events # <<>>
  /\ \E p \in Procs :
       /\ run[p].pc = "done"
       /\ run[p].resolved = <<>>
       /\ run[p].result = 0

\* Some event of evs carries an id the table holds, or evs carries an id twice.
Duplicated(tbl, evs) ==
  \/ \E i \in DOMAIN evs : Conflicts(tbl, [event_id |-> evs[i].id])
  \/ \E i, j \in DOMAIN evs : i # j /\ evs[i].id = evs[j].id

\* C15: the bulk insert's run returns processed = the size of its to-ingest
\* set, never less than the number of rows the insert stored, and more
\* than that number when an admitted id is already stored or admitted twice.
C15_ProcessedIsAttempted ==
  [][ \A p \in Procs :
        run[p].pc = "insert" /\ run'[p].pc = "done" =>
          LET stored == Len(roulette_events') - Len(roulette_events) IN
          /\ run'[p].result = Len(run[p].resolved)
          /\ run'[p].result >= stored
          /\ Duplicated(roulette_events, run[p].resolved) => run'[p].result > stored
    ]_vars

\* A run returned processed = 2 and the fact table holds one row.
C15_Witness ==
  /\ Len(roulette_events) = 1
  /\ \E p \in Procs : run[p].pc = "done" /\ run[p].result = 2

\* A batch of Resolved events with pairwise distinct ids, each table under
\* one display name.
FreshBatch(b) ==
  /\ b # <<>>
  /\ \A i \in DOMAIN b : b[i].status = "Resolved"
  /\ \A i, j \in DOMAIN b :
       /\ b[i].id = b[j].id => i = j
       /\ b[i].table.id = b[j].table.id => b[i].table.name = b[j].table.name

\* C16: the first run ever, on a store without casino or fact rows, with a
\* batch of n Resolved events of distinct ids from k tables, returns
\* processed = n and leaves k casino rows and n fact rows, the i-th fact
\* carrying the i-th event's id, timestamps, outcome number, parity and color
\* and referencing the casino row of the event's table id and name.
C16_FreshStore ==
  [][ \A p \in Procs :
        ( /\ runs = 1
          /\ run[p].pc = "insert"
          /\ run'[p].pc = "done"
          /\ FreshBatch(run[p].batch) )
        => LET b == run[p].batch IN
           /\ roulette_events = <<>>
           /\ run'[p].result = Len(b)
           /\ Cardinality(casino') = Cardinality({ b[i].table.id : i \in DOMAIN b })
           /\ Len(roulette_events') = Len(b)
           /\ \A i \in DOMAIN b :
                /\ roulette_events'[i].event_id = b[i].id
                /\ roulette_events'[i].started_at = b[i].startedAt
                /\ roulette_events'[i].settled_at = b[i].settledAt
                /\ roulette_events'[i].outcome_number = b[i].result.outcome.number
                /\ roulette_events'[i].outcome_type = b[i].result.outcome.type
                /\ roulette_events'[i].outcome_color = b[i].result.outcome.color
                /\ \E c \in casino' :
                     /\ c.id = roulette_events'[i].casino_id
                     /\ c.table_id = b[i].table.id
                     /\ c.table_name = b[i].table.name
    ]_vars

\* The first run stored two facts of two tables.
C16_Witness ==
  /\ runs = 1
  /\ Cardinality(casino) = 2
  /\ Len(roulette_events) = 2
  /\ \E p \in Procs : run[p].pc = "done" /\ run[p].result = 2

\* C17: the bulk insert never fails on an event id that is stored or repeated
\* in its rows: its run returns, the stored rows stay in place, every row
\* whose id was not stored is appended (the first of a repeated id), and no
\* id is stored twice.
C17_InsertOrSkip ==
  [][ \A p \in Procs :
        run[p].pc = "insert" /\ run'[p] # run[p] =>
          /\ run'[p].pc = "done"
          /\ SubSeq(roulette_events', 1, Len(roulette_events)) = roulette_events
          /\ UniqueEventIds(roulette_events')
          /\ \A i \in DOMAIN run[p].resolved :
               Conflicts(roulette_events', [event_id |-> run[p].resolved[i].id])
          /\ \A j \in (Len(roulette_events) + 1)..Len(roulette_events') :
               \E i \in DOMAIN run[p].resolved :
                 roulette_events'[j].event_id = run[p].resolved[i].id
    ]_vars

\* A run whose rows held a stored id and a new one returned: the new one is
\* stored behind the old row.
C17_Witness ==
  \E p \in Procs :
    /\ run[p].pc = "done"
    /\ Len(run[p].resolved) = 2
    /\ Len(roulette_events) = 2
    /\ roulette_events[1].event_id = run[p].resolved[1].id
    /\ roulette_events[1].settled_at # run[p].resolved[1].settledAt
    /\ roulette_events[2].event_id = run[p].resolved[2].id

\* The columns of a fact row that come from the event.
Content(row) ==
  <<row.started_at, row.settled_at, row.outcome_number, row.outcome_type,
    row.outcome_color, row.casino_id>>

\* C18: no step changes the timestamps, outcome or casino_id of a stored
\* fact row: a row present before and after a step is the same row.
C18_FactsImmutable ==
  [][ \A i \in DOMAIN roulette_events :
        \A j \in DOMAIN roulette_events' :
          roulette_events[i].event_id = roulette_events'[j].event_id =>
            Content(roulette_events[i]) = Content(roulette_events'[j])
    ]_vars

\* A run that admitted e1 with other values has returned, and the stored
\* row still carries the first delivery's values.
C18_Witness ==
  \E p \in Procs :
    /\ run[p].pc = "done"
    /\ \E i \in DOMAIN run[p].resolved :
         \E j \in DOMAIN roulette_events :
           /\ roulette_events[j].event_id = run[p].resolved[i].id
           /\ roulette_events[j].outcome_number # run[p].resolved[i].result.outcome.number

\* C19: a fact row is inserted at most once per external event id: a row
\* whose id was inserted before is in the table after a step only if it was
\* there before the step (once pruned, it is not created again).
C19_CreatedOnce ==
  [][ \A j \in DOMAIN roulette_events' :
        (\E x \in provenance : x.ev.id = roulette_events'[j].event_id) =>
          Conflicts(roulette_events, roulette_events'[j])
    ]_vars

\* C20: a payload that is no array, or holds an element the schema refuses,
\* makes the run throw the validation error in its first step, with the
\* casino table, its sequence and the fact table as they were; no run goes on
\* to read a watermark with such an element in its batch, and no fact is
\* ever stored from a payload's element unless the whole payload parsed.
C20_ValidationFailFast ==
  [][ /\ \A p \in Procs :
           /\ ( /\ run'[p] # run[p]
                /\ run'[p].error = "validation" )
              => /\ run[p].pc \in Terminal
                 /\ run'[p].pc = "failed"
                 /\ run'[p].resolved = <<>>
                 /\ \/ run'[p].batch = <<>>
                    \/ \E i \in DOMAIN run'[p].batch : ~ WellFormed(variant, run'[p].batch[i])
                 /\ casino' = casino
                 /\ casinoSeq' = casinoSeq
                 /\ roulette_events' = roulette_events
           /\ run'[p].pc \in {"wm", "dim", "insert"} =>
                \A i \in DOMAIN run'[p].batch : WellFormed(variant, run'[p].batch[i])
           /\ \A i \in DOMAIN run'[p].resolved : WellFormed(variant, run'[p].resolved[i])
      /\ \A x \in provenance' : WellFormed(variant, x.ev)
    ]_vars

\* A payload of a well-formed and a malformed element was refused on a store
\* that holds facts; the well-formed element's id is not stored.
C20_Witness ==
  /\ roulette_events # <<>>
  /\ \E p \in Procs :
       /\ run[p].pc = "failed"
       /\ run[p].error = "validation"
       /\ Len(run[p].batch) = 2
       /\ \E i \in DOMAIN run[p].batch :
            /\ WellFormed(variant, run[p].batch[i])
            /\ ~ Conflicts(roulette_events, [event_id |-> run[p].batch[i].id])

\* C21: in every variant every stored fact has its outcome_type in
\* {Even, Odd} and its outcome_color in {Red, Black, Green}.
C21_ClosedEnums ==
  \A i \in DOMAIN roulette_events :
    /\ roulette_events[i].outcome_type \in OutcomeTypes
    /\ roulette_events[i].outcome_color \in OutcomeColors

\* C26: a prune that returns leaves no fact row created before the cutoff
\* (the clock it read less three months), keeps every row created at or after
\* the cutoff as it was and in its place, and leaves the casino table and its
\* sequence alone.
C26_PruneExact ==
  [][ pruner'.outcome = "returned" =>
        LET cutoff == now' - RetentionMonths IN
        /\ \A i \in DOMAIN roulette_events' : roulette_events'[i].created_at >= cutoff
        /\ roulette_events' =
             SelectSeq(roulette_events, LAMBDA row : row.created_at >= cutoff)
        /\ casino' = casino
        /\ casinoSeq' = casinoSeq
    ]_vars

\* A prune returned having removed one row and kept another.
C26_Witness ==
  /\ pruner.outcome = "returned"
  /\ pruner.deleted = 1
  /\ roulette_events # <<>>
  /\ \E x \in provenance : ~ Conflicts(roulette_events, [event_id |-> x.ev.id])

\* C27: in every variant the pruner ends by returning `deleted`, the number
\* of fact rows its statement removed.
C27_DeletedIsRemoved ==
  [][ pruner'.outcome # "none" =>
        pruner'.deleted = Len(roulette_events) - Len(roulette_events')
    ]_vars

\* C28: once the pruner has run, running it again with the clock where it is
\* removes no row and returns deleted = 0.
C28_PruneIdempotent ==
  pruner.outcome # "none" =>
    /\ pruner.outcome = "returned"
    /\ ExpiredRows(roulette_events, now) = {}
    /\ Deleted(variant, roulette_events, now) = 0

\* C29: under any interleaving of ingest and prune steps every casino row
\* stays in the table with its id, table_id and table_name, also when a
\* prune removes the last fact that referenced it.
C29_DimensionsKept ==
  [][ \A c \in casino :
        \E d \in casino' :
          /\ d.id = c.id
          /\ d.table_id = c.table_id
          /\ d.table_name = c.table_name
    ]_vars

\* A prune has removed every fact of a casino row that had facts.
C29_Witness ==
  /\ \A p \in Procs : run[p].pc \in Terminal
  /\ \E c \in casino :
       /\ \E x \in provenance : x.casino_id = c.id
       /\ \A i \in DOMAIN roulette_events : roulette_events[i].casino_id # c.id

\* C22: when the store refuses the bulk insert of a run, the casino table
\* stays as it is, every row the run's dimension step resolved included, the
\* fact table stays as it is, and the run throws the statement's error.
C22_NoRollback ==
  [][ \A p \in Procs :
        /\ ( /\ run[p].pc = "insert"
             /\ run'[p].pc \notin {"insert", "done"} )
           => /\ run'[p].error = "storage"
              /\ run'[p].result = Error
              /\ casino' = casino
              /\ \A t \in TableIds :
                   run[p].tasks[t] = "done" =>
                     \E c \in casino' : c.id = run[p].cache[t] /\ c.table_id = t
              /\ roulette_events' = roulette_events
              /\ provenance' = provenance
        /\ run'[p].error = "storage" =>
             /\ run'[p].pc \in {"log", "logins", "failed"}
             /\ run'[p].result = Error
    ]_vars

\* The only run so far created its casino rows and threw on the bulk insert:
\* the rows are stored and no fact is.
C22_Witness ==
  /\ runs = 1
  /\ casino # {}
  /\ roulette_events = <<>>
  /\ \E p \in Procs :
       /\ run[p].pc = "failed"
       /\ run[p].error = "storage"
       /\ run[p].resolved # <<>>

\* C23: an invocation that fails hands its error to the caller out of
\* logError, that is after the attempt to record it, and the error handed
\* over is the one that was caught.
C23_LoggedThenRethrown ==
  [][ \A p \in Procs :
        ( /\ run'[p].pc = "failed"
          /\ run[p].pc # "failed" )
        => /\ run[p].pc \in {"log", "logins"}
           /\ run'[p].error = run[p].error
    ]_vars

\* C24: no two rows of the error log carry the same message with creation
\* times less than 24 hours apart (two readings of the clock that differ are
\* months apart).
C24_Suppression ==
  \A i, j \in DOMAIN error_logs :
    ( /\ i # j
      /\ error_logs[i].error_message = error_logs[j].error_message )
    => error_logs[i].created_at # error_logs[j].created_at

\* C25: a run that starts on an answer with a status other than 200 throws
\* the HTTP error in that step, without a watermark query dispatched and
\* with the casino table and the fact table as they were.
C25_FetchFailure ==
  [][ \A p \in Procs :
        ( /\ runs' = runs + 1
          /\ run'[p] # run[p]
          /\ run'[p].http # HttpOk )
        => /\ run'[p].error = "http"
           /\ run'[p].pc \in {"log", "failed"}
           /\ run'[p].pending = {}
           /\ casino' = casino
           /\ roulette_events' = roulette_events
    ]_vars

\* C30: within an invocation the filter has not run while a watermark query
\* is unanswered; the rows are built and the bulk insert is sent only when
\* every dimension task of the to-ingest set has ended with its casino row
\* stored, so no row is built on a missing casino id; and an invocation that
\* returned has no dimension task left.
C30_StagesInOrder ==
  \A p \in Procs :
    /\ run[p].pc = "wm" =>
         /\ run[p].pending # {}
         /\ run[p].resolved = <<>>
         /\ run[p].tasks = NoTasks
    /\ run[p].pc \in {"dim", "insert"} => run[p].pending = {}
    /\ run[p].pc = "dim" =>
         \E t \in TableIds : run[p].tasks[t] \in {"select", "insert"}
    /\ run[p].pc \in {"insert", "done"} =>
         \A i \in DOMAIN run[p].resolved :
           LET t == run[p].resolved[i].table.id IN
           run[p].tasks[t] = "done"
    /\ run[p].pc = "insert" =>
         \A i \in DOMAIN run[p].resolved :
           \E c \in casino : c.id = CacheGet(run[p].cache, run[p].resolved[i])
    /\ run[p].pc = "done" =>
         \A t \in TableIds : run[p].tasks[t] \notin {"select", "insert"}
    /\ run[p].error \notin {"invalid_fields", "undefined_value"}

\* Both dimension tasks of a run have ended and its bulk insert is next.
C30_Witness ==
  \E p \in Procs :
    /\ run[p].pc = "insert"
    /\ \A t \in TableIds : run[p].tasks[t] = "done"

\* The kinds of error an invocation can throw, and the statuses it can throw on.
ErrorKinds ==
  {"http", "validation", "casino_unique", "invalid_fields", "undefined_value",
   "foreign_key", "storage", "invalid_datetime"}

\* C31: the route answers an invocation that returned with status 200 and the
\* body {message, processedEvents = processed}, and an invocation that threw
\* with status 500 and one fixed body: the answer to a failure is the same
\* whatever was thrown and on whatever upstream status.
C31_GenericFailure ==
  \A p \in Procs :
    /\ run[p].pc = "done" =>
         /\ GET(run[p]).status = HttpOk
         /\ DOMAIN GET(run[p]).body = {"message", "processedEvents"}
         /\ GET(run[p]).body.processedEvents = run[p].result
    /\ run[p].pc = "failed" =>
         /\ GET(run[p]).status = 500
         /\ \A k \in ErrorKinds, a \in Answers \cup Payloads :
              GET([run[p] EXCEPT !.error = k, !.http = a.status]) = GET(run[p])

\* A run threw the store's error on its bulk insert after an earlier run had
\* stored facts.
C31_Witness ==
  /\ roulette_events # <<>>
  /\ \E p \in Procs :
       /\ run[p].pc = "failed"
       /\ run[p].error = "storage"
       /\ GET(run[p]).status = 500

\* C32: a script leaves with 0 when its operation returned and with 1 when it
\* threw; the cleanup script, run against the store (which refuses no
\* DELETE), returns and leaves with 0.
C32_ExitCodes ==
  /\ \A p \in Procs :
       /\ run[p].pc = "done" => Exit(run[p].result = Error) = 0
       /\ run[p].pc = "failed" => Exit(run[p].result = Error) = 1
  /\ pruner.outcome # "none" =>
       /\ pruner.outcome = "returned"
       /\ Exit(pruner.deleted = Error) = 0

\* C33: the dimension step dispatches a task for the partition of every event
\* of the to-ingest set, every task that ended left its casino id in the
\* cache, and the rows are built with the cache holding an id for every
\* event: no invocation throws "Invalid fields!" (or, in the js variant, is
\* refused an undefined casino id) and no fact was stored without its
\* casino id.
C33_CacheComplete ==
  /\ \A p \in Procs :
       /\ run[p].pc \in {"dim", "insert"} =>
            \A i \in DOMAIN run[p].resolved :
              LET t == run[p].resolved[i].table.id IN
              /\ run[p].tasks[t] \in {"select", "insert", "done"}
              /\ run[p].tasks[t] = "done" => run[p].cache[t] # NULL
              /\ run[p].pc = "insert" => run[p].cache[t] # NULL
       /\ run[p].error \notin {"invalid_fields", "undefined_value"}
  /\ \A x \in provenance : x.casino_id # NULL

\* A run of two partitions built its rows and stored them: two facts, two
\* casino ids.
C33_Witness ==
  \E p \in Procs :
    /\ run[p].pc = "done"
    /\ Len(run[p].resolved) = 2
    /\ run[p].resolved[1].table.id # run[p].resolved[2].table.id
    /\ \A i \in DOMAIN run[p].resolved :
         \E x \in provenance : x.ev = run[p].resolved[i] /\ x.casino_id # NULL

\* C34: a casino row is inserted only by an invocation whose to-ingest set
\* holds an event of that table, Resolved and, while the batch is at hand,
\* an element of the batch settled after the watermark read for it; a table
\* that the batch names on events of another status only gets no row.
C34_DimensionsForAdmitted ==
  [][ \A c \in casino' \ casino :
        \E p \in Procs :
          /\ run[p].tasks[c.table_id] = "insert"
          /\ run'[p].tasks[c.table_id] = "done"
          /\ \E i \in DOMAIN run[p].resolved :
               LET e == run[p].resolved[i] IN
               /\ e.table.id = c.table_id
               /\ e.status = "Resolved"
               /\ run[p].pc = "dim" =>
                    /\ e \in Range(run[p].batch)
                    /\ \/ run[p].wm[WatermarkKey(variant, e)] = NULL
                       \/ e.settledAt > run[p].wm[WatermarkKey(variant, e)]
    ]_vars

\* A payload named a table on an event that was not Resolved; the run
\* stored a casino row for another table and none for that one.
C34_Witness ==
  /\ probe.stage = "ran"
  /\ casino # {}
  /\ \E i \in DOMAIN probe.batch.items :
       /\ probe.batch.items[i].status # "Resolved"
       /\ \A c \in casino : c.table_id # probe.batch.items[i].table.id

C36_WatermarkNeverBack ==
  [][ \A t \in TableIds :
        ( /\ LatestSettledAt(t) # NULL
          /\ LatestSettledAt(t)' # NULL )
        => LatestSettledAt(t)' >= LatestSettledAt(t)
    ]_vars

\* A prune removed a fact of a partition and kept a fact of the same
\* partition, which two runs had filled.
C36_Witness ==
  /\ pruner.outcome = "returned"
  /\ \E x \in provenance :
       /\ ~ Conflicts(roulette_events, [event_id |-> x.ev.id])
       /\ \E i \in DOMAIN roulette_events :
            /\ roulette_events[i].casino_id = x.casino_id
            /\ roulette_events[i].settled_at > x.ev.settledAt

\* The events of evs that a bulk insert into tbl stores: the first of each
\* id that tbl does not hold.
NonConflicting(tbl, evs) ==
  { evs[i].id : i \in { j \in DOMAIN evs : ~ Conflicts(tbl, [event_id |-> evs[j].id]) } }

\* C37: the fact table grows only in the step in which one invocation's bulk
\* insert returns, and that step stores every event of the invocation's
\* to-ingest set whose id was not stored, once; every other step of an
\* invocation, the step in which it throws included (validation, watermark
\* query, dimension step, refused bulk insert), stores nothing.
C37_AllOrNothing ==
  [][ /\ \A p \in Procs :
           ( /\ run'[p] # run[p]
             /\ ~ (run[p].pc = "insert" /\ run'[p].pc = "done") )
           => roulette_events' = roulette_events
      /\ \A p \in Procs :
           ( /\ run[p].pc = "insert"
             /\ run'[p].pc = "done" )
           => LET n == Len(roulette_events)
                  new == SubSeq(roulette_events', n + 1, Len(roulette_events'))
              IN /\ SubSeq(roulette_events', 1, n) = roulette_events
                 /\ { new[j].event_id : j \in DOMAIN new } =
                      NonConflicting(roulette_events, run[p].resolved)
                 /\ UniqueEventIds(new)
    ]_vars

\* A run that admitted two events threw in its dimension step on a store
\* that holds facts: neither event is stored.
C37_Witness ==
  /\ roulette_events # <<>>
  /\ \E p \in Procs :
       /\ run[p].pc = "failed"
       /\ run[p].error = "casino_unique"
       /\ Len(run[p].resolved) = 2
       /\ \A i \in DOMAIN run[p].resolved :
            ~ Conflicts(roulette_events, [event_id |-> run[p].resolved[i].id])

\* The watermarks of the store as it is.
StoreWm ==
  [ k \in TableIds \cup {GlobalKey} |->
      IF k = GlobalKey THEN GlobalLatestSettledAt ELSE LatestSettledAt(k) ]

\* The step in which a watched invocation, alone on the store since it
\* started, returns or throws: the store before the step holds the facts the
\* invocation started on, and probe'.batch is its payload.
Completes(p) ==
  /\ probe.stage \in {"off", "first"}
  /\ probe'.stage = "ran"
  /\ run'[p] # run[p]

\* A table of evs is stored under another name than evs gives it first.
RenamedIn(evs) ==
  \E c \in casino :
    /\ c.table_id \in DOMAIN UniqueTables(evs)
    /\ c.table_name # UniqueTables(evs)[c.table_id]

\* The rows the step appended to the fact table.
Appended == SubSeq(roulette_events', Len(roulette_events) + 1, Len(roulette_events'))

\* The store refuses a timestamp of evs as the deployed variant passes it on.
RefusedIn(evs) ==
  \E i \in DOMAIN evs :
    \/ TimestampRefused(Passed(variant, evs[i].startedAt))
    \/ TimestampRefused(Passed(variant, evs[i].settledAt))

\* C38: an invocation that runs alone ends the same way whatever the order
\* in which its watermark queries and its dimension tasks answer: its
\* to-ingest set is the filter applied to the payload under the watermarks of
\* the store it started on; it throws when a table of that set is stored
\* under another name or the store refuses a value, and returns otherwise; returning, it reports the size
\* of the set and has appended the events of the set whose id was not stored,
\* each referencing the casino row of its table id.
C38_OrderIndependent ==
  [][ \A p \in Procs :
        ( Completes(p) /\ Valid(variant, probe'.batch) ) =>
          LET ref == ToIngest(variant, probe'.batch.items, StoreWm) IN
          /\ run'[p].resolved = ref
          /\ run'[p].pc = "done" <=> ~ (RenamedIn(ref) \/ RefusedIn(ref))
          /\ run'[p].pc = "done" =>
               /\ run'[p].result = Len(ref)
               /\ SubSeq(roulette_events', 1, Len(roulette_events)) = roulette_events
               /\ { Appended[j].event_id : j \in DOMAIN Appended } =
                    NonConflicting(roulette_events, ref)
               /\ \A j \in DOMAIN Appended :
                    \E i \in DOMAIN ref :
                      /\ ref[i].id = Appended[j].event_id
                      /\ \E c \in casino' : /\ c.id = Appended[j].casino_id
                                            /\ c.table_id = ref[i].table.id
          /\ run'[p].pc # "done" => roulette_events' = roulette_events
    ]_vars

\* A watched invocation of the ts or js variant admitted events of two
\* tables, both with facts stored, and returned: two watermark queries and
\* two dimension tasks have answered.
C38_Witness ==
  /\ variant # "global"
  /\ probe.stage = "ran"
  /\ \E p \in Procs :
       /\ run[p].pc = "done"
       /\ Len(run[p].resolved) = 2
       /\ run[p].resolved[1].table.id # run[p].resolved[2].table.id
       /\ Len(roulette_events) > 2

\* The payload parses under schemas.ts and under the schema of the js variant.
BothAccept(payload) == Valid("ts", payload) /\ Valid("js", payload)

\* The to-ingest set as a function of the batch and the store, written
\* without regard to the variant: the Resolved events settled after every
\* fact of their partition.
Reference(b) ==
  SelectSeq(b, LAMBDA e :
    /\ e.status = "Resolved"
    /\ \A s \in SettledOf(e.table.id) : DateOf(e.settledAt) > s)

\* C39: on a payload both schemas accept, the ts and the js variant end with
\* one and the same result, a function of the payload and the store alone:
\* the same to-ingest set, the same outcome (thrown or returned), the same
\* processed count, the same fact rows appended (id, timestamps, outcome and
\* partition) and the same casino rows inserted (table id and name).
C39_VariantEquivalence ==
  [][ ( variant \in {"ts", "js"} /\ BothAccept(probe'.batch) ) =>
        LET ref == Reference(probe'.batch.items) IN
        /\ \A p \in Procs :
             Completes(p) =>
               /\ run'[p].resolved = ref
               /\ run'[p].pc = "done" <=> ~ RenamedIn(ref)
               /\ run'[p].pc = "done" =>
                    /\ run'[p].result = Len(ref)
                    /\ \A t \in DOMAIN UniqueTables(ref) :
                         \E c \in casino' : /\ c.table_id = t
                                           /\ c.table_name = UniqueTables(ref)[t]
                    /\ { Appended[j].event_id : j \in DOMAIN Appended } =
                         NonConflicting(roulette_events, ref)
                    /\ \A j \in DOMAIN Appended :
                         \E i \in DOMAIN ref :
                           /\ \A k \in 1..(i - 1) : ref[k].id # ref[i].id
                           /\ Appended[j].event_id = ref[i].id
                           /\ Appended[j].started_at = DateOf(ref[i].startedAt)
                           /\ Appended[j].settled_at = DateOf(ref[i].settledAt)
                           /\ Appended[j].outcome_number = ref[i].result.outcome.number
                           /\ Appended[j].outcome_type = ref[i].result.outcome.type
                           /\ Appended[j].outcome_color = ref[i].result.outcome.color
                           /\ \E c \in casino' : /\ c.id = Appended[j].casino_id
                                                 /\ c.table_id = ref[i].table.id
               /\ run'[p].pc # "done" => Appended = <<>>
        /\ ( probe.stage \in {"first", "ran"} /\ probe' = probe ) =>
             \A c \in casino' \ casino :
               /\ c.table_id \in DOMAIN UniqueTables(ref)
               /\ c.table_name = UniqueTables(ref)[c.table_id]
    ]_vars

\* How far an invocation is from its end: the stages ahead of it, the
\* watermark queries unanswered, the statements its dimension tasks have
\* still to send.
Ahead(r) ==
  ( CASE r.pc = "wm" -> 500
      [] r.pc = "dim" -> 400
      [] r.pc = "insert" -> 300
      [] r.pc = "log" -> 200
      [] r.pc = "logins" -> 100
      [] OTHER -> 0 )
  + 10 * Cardinality(r.pending)
  + 2 * Cardinality({ t \in TableIds : r.tasks[t] = "select" })
  + Cardinality({ t \in TableIds : r.tasks[t] = "insert" })

\* C40: when every awaited operation completes, an invocation that has
\* started returns or throws in the end; and every step of an invocation
\* brings it nearer to its end: no statement is sent again and no stage is
\* entered twice.
C40_Terminates ==
  /\ \A p \in Procs : (run[p].pc \notin Terminal) ~> (run[p].pc \in Terminal)
  /\ [][ \A p \in Procs :
           ( run'[p] # run[p] /\ ~ Free(p) ) => Ahead(run'[p]) < Ahead(run[p])
       ]_vars

\* An invocation awaits its fan-out of two dimension tasks: one lookup is
\* still out, the other task has gone on to its insert.
C40_Witness ==
  \E p \in Procs :
    /\ run[p].pc = "dim"
    /\ run[p].tasks["A"] = "select"
    /\ run[p].tasks["B"] = "insert"

====
